---- MODULE Spec2Model ----
(***************************************************************************)
(* Huffman.py: the Huffman codec class.  Symbols are characters, modelled  *)
(* by their ordinal (1 = 'a', 2 = 'b', ...); a str is a sequence of        *)
(* symbols; a bit pattern is a sequence over {0, 1} (the characters '0'    *)
(* and '1').  Python 2 semantics (the file uses print statements).         *)
(***************************************************************************)
EXTENDS Integers, Sequences, FiniteSets, TLC

\* ------------------------------------------------------------------ bounds
\* Spec: symbols of the generated inputs, their length, free bit strings.
NSym == 3
MaxLen == 3
MaxBits == 1
\* SpecShare: two instances, inputs over NSymShare symbols up to MaxLenShare.
NSymShare == 2
MaxLenShare == 2
\* SpecOpt: inputs a^i b^j ... with each count up to MaxCount, rival codes
\* with words of at most MaxCodeLen bits.
NSymOpt == 3
MaxCount == 3
MaxCodeLen == 3

\* ----------------------------------------------------------- small helpers
Range(s) == {s[i] : i \in DOMAIN s}

RECURSIVE Strings(_, _)
\* All sequences over S of length exactly n.
Strings(S, n) ==
    IF n = 0 THEN {<<>>}
    ELSE {Append(s, x) : s \in Strings(S, n - 1), x \in S}

StringsUpTo(S, n) == UNION {Strings(S, k) : k \in 1..n}

RECURSIVE Repeat(_, _)
Repeat(x, n) == IF n = 0 THEN <<>> ELSE Append(Repeat(x, n - 1), x)

IsPrefix(p, q) == Len(p) <= Len(q) /\ SubSeq(q, 1, Len(p)) = p

\* A Python dict is a function from its keys to its values.
EmptyDict == [k \in {} |-> <<>>]
\* d[k] = v
DictSet(d, k, v) == (k :> v) @@ d

\* ------------------------------------------------------------ test inputs
test_data_1 == <<1>>
test_data_2 == [i \in 1..26 |-> i]
test_data_3 == Repeat(1, 26)

\* An argument of a call: None, or a sequence.
None == [none |-> TRUE, s |-> <<>>]
Arg(s) == [none |-> FALSE, s |-> s]
\* Mutant: only None is rejected, the empty sequence passes.
Invalid_none_only(x) == x.none

\* x is None or len(x) == 0
Invalid(x) == x.none \/ Len(x.s) = 0

NoErr == "none"
ErrData == "Invalid data."
ErrEncoded == "Invalid encoded value."
ErrArgument == "Invalid argument \"encodedValue\"."
ErrMember == "Invalid member \"data\"."
ErrFrequency == "Invalid frequency table."
ErrNoTable == "Huffman encoding table has not been created."
ErrKey == "Invalid huffman key."

\* ------------------------------------------------------- __create_frequency
\* Counter(self.data).items() as (count, symbol) pairs; the list's order is
\* the dict's and is forgotten by heapify, so the list is modelled as a set.
create_frequency(d) ==
    {<<Cardinality({i \in DOMAIN d : d[i] = s}), s>> : s \in Range(d)}

\* ----------------------------------------------------------- __huffman_tree
\* A node is a tuple: a leaf (weight, symbol) or a parent (weight, left,
\* right).  heapq orders them by Python 2's tuple comparison: the first
\* differing position decides; a str against a tuple (a leaf against a
\* parent of equal weight) compares the type names, 'str' < 'tuple'.
RECURSIVE tuple_lt(_, _)
tuple_lt(a, b) ==
    IF a[1] # b[1] THEN a[1] < b[1]
    ELSE IF Len(a) = 2 /\ Len(b) = 2 THEN a[2] < b[2]
    ELSE IF Len(a) = 2 THEN TRUE
    ELSE IF Len(b) = 2 THEN FALSE
    ELSE IF a[2] # b[2] THEN tuple_lt(a[2], b[2])
    ELSE IF a[3] # b[3] THEN tuple_lt(a[3], b[3])
    ELSE FALSE

\* Mutant: the heap yields its largest item.
heappop_largest(heap) == CHOOSE n \in heap : \A m \in heap \ {n} : tuple_lt(m, n)

\* heapq.heappop: the smallest item of the heap.
heappop(heap) == CHOOSE n \in heap : \A m \in heap \ {n} : tuple_lt(n, m)

\* Mutant: the parent keeps the left child's weight instead of the sum.
parentnode_unweighted(leftnode, rightnode) == <<leftnode[1], leftnode, rightnode>>

parentnode(leftnode, rightnode) == <<leftnode[1] + rightnode[1], leftnode, rightnode>>

RECURSIVE huffman_tree(_)
\* The while loop of __huffman_tree on a non-empty heap; returns frequency[0].
huffman_tree(frequency) ==
    IF Cardinality(frequency) > 1
    THEN LET leftnode == heappop(frequency)
             rest == frequency \ {leftnode}
             rightnode == heappop(rest)
         IN huffman_tree((rest \ {rightnode}) \cup {parentnode(leftnode, rightnode)})
    ELSE CHOOSE n \in frequency : TRUE

\* ----------------------------------------------------------- __huffman_code
\* Mutant: no special case for a tree that is a single leaf.
root_prefix_empty(tree) == <<>>

\* Mutant: the single leaf gets '0'.
root_prefix_zero(tree) == IF Len(tree) = 2 THEN <<0>> ELSE <<>>

\* The prefix the traversal starts with.
root_prefix(tree) == IF Len(tree) = 2 THEN <<1>> ELSE <<>>

\* One iteration of the while loop, on its variables: the stack of
\* (node, prefix) and self.dictionary.  The top of the stack is popped; a leaf
\* gets its prefix as code, a parent's children are pushed with '0' and '1'.
code_step(loop) ==
    LET ptr == loop.stack[Len(loop.stack)]
        rest == SubSeq(loop.stack, 1, Len(loop.stack) - 1)
    IN IF Len(ptr[1]) = 2
       THEN [stack |-> rest,
             dictionary |-> DictSet(loop.dictionary, ptr[1][2], ptr[2])]
       ELSE [stack |-> rest \o << <<ptr[1][2], Append(ptr[2], 0)>>,
                                  <<ptr[1][3], Append(ptr[2], 1)>> >>,
             dictionary |-> loop.dictionary]

RECURSIVE code_loop(_)
\* while len(stack) > 0; returns self.dictionary as the loop leaves it.
code_loop(loop) ==
    IF Len(loop.stack) > 0 THEN code_loop(code_step(loop)) ELSE loop.dictionary

\* The stack starts with the root; the loop writes into self.dictionary (dict)
\* without clearing it.
huffman_code(tree, dict) ==
    code_loop([stack |-> << <<tree, root_prefix(tree)>> >>, dictionary |-> dict])

\* ------------------------------------------------------------------ __encode
RECURSIVE encode_loop(_, _, _, _)
encode_loop(d, dict, i, value) ==
    IF i > Len(d) THEN [err |-> NoErr, val |-> value]
    ELSE IF d[i] \in DOMAIN dict
         THEN encode_loop(d, dict, i + 1, value \o dict[d[i]])
         ELSE [err |-> ErrKey, val |-> <<>>]

encode(d, dict) ==
    IF Cardinality(DOMAIN dict) = 0 THEN [err |-> ErrNoTable, val |-> <<>>]
    ELSE encode_loop(d, dict, 1, <<>>)

\* ---------------------------------------------------- get_reversed_dictionary
Keys(dict, v) == {k \in DOMAIN dict : dict[k] = v}

RECURSIVE reversed_over(_, _)
reversed_over(dict, codes) ==
    IF codes = {} THEN {EmptyDict}
    ELSE LET v == CHOOSE x \in codes : TRUE
         IN {DictSet(r, v, k) : r \in reversed_over(dict, codes \ {v}), k \in Keys(dict, v)}

\* {v: k for k, v in dict.items()}: when two keys hold the same bit pattern
\* the one that items() yields last wins, and items() has the hash table's
\* order: every choice of one key per bit pattern is a possible result.
get_reversed_dictionary(dict) == reversed_over(dict, Range(dict))

\* ------------------------------------------------------------ decode_huffman
\* Mutant: bitPattern is not reset after a match.
decode_step_noreset(reverseddictionary, encodedvalue, loop) ==
    LET bp == Append(loop.bitPattern, encodedvalue[loop.i])
    IN IF bp \in DOMAIN reverseddictionary
       THEN [i |-> loop.i + 1, bitPattern |-> bp,
             decodedvalue |-> Append(loop.decodedvalue, reverseddictionary[bp])]
       ELSE [i |-> loop.i + 1, bitPattern |-> bp, decodedvalue |-> loop.decodedvalue]

\* One iteration of the for loop of decode_huffman, on its variables: the
\* position i of the bit taken, bitPattern and decodedvalue.
decode_step(reverseddictionary, encodedvalue, loop) ==
    LET bp == Append(loop.bitPattern, encodedvalue[loop.i])
    IN IF bp \in DOMAIN reverseddictionary
       THEN [i |-> loop.i + 1, bitPattern |-> <<>>,
             decodedvalue |-> Append(loop.decodedvalue, reverseddictionary[bp])]
       ELSE [i |-> loop.i + 1, bitPattern |-> bp, decodedvalue |-> loop.decodedvalue]

RECURSIVE decode_loop(_, _, _, _)
\* The next n iterations of the for loop (fewer when encodedvalue ends
\* first), from the variables loop: n \div 2 of them, then the others.
decode_loop(reverseddictionary, encodedvalue, n, loop) ==
    IF loop.i > Len(encodedvalue) \/ n = 0 THEN loop
    ELSE IF n = 1 THEN decode_step(reverseddictionary, encodedvalue, loop)
    ELSE decode_loop(reverseddictionary, encodedvalue, n - n \div 2,
                     decode_loop(reverseddictionary, encodedvalue, n \div 2, loop))

\* The variables when the for loop has gone over all of encodedvalue.
decode_end(reverseddictionary, encodedvalue) ==
    decode_loop(reverseddictionary, encodedvalue, Len(encodedvalue),
                [i |-> 1, bitPattern |-> <<>>, decodedvalue |-> <<>>])

\* What decode_huffman returns for a valid argument.
decode(reverseddictionary, encodedvalue) ==
    decode_end(reverseddictionary, encodedvalue).decodedvalue

\* ------------------------------------------------------ get_compression_ratio
\* 1 - len(encodedValue) / float(len(data) * 8), as <<numerator, denominator>>.
compression_ratio(encodedValue, d) == <<Len(d) * 8 - Len(encodedValue), Len(d) * 8>>


\* ====================================================================== state
\* Two names of the caller's, each bound to at most one Huffman object.
Inst == {"A", "B"}

VARIABLES
    data,        \* self.data of each instance; <<>> while the name is unbound
    dictionary,  \* self.dictionary of each instance: a reference to a dict object
    store,       \* the dict objects: reference -> contents
    encoded,     \* the caller's copy of what encode_huffman last returned (None: nothing yet)
    fresh,       \* history: no set_dictionary on the instance, and no other instance wrote its dict
    given,       \* history: what the last set_dictionary on the instance was passed: another
                 \* instance's dict (its name), a dict of the caller's ("caller"), Null if never called
    ret          \* the last call: operation, instance, argument, what it raised or returned,
                 \* and the instance's table as it was before the call

vars == <<data, dictionary, store, encoded, fresh, given, ret>>

Null == "null"

\* The contents of instance i's table.
Dict(i) == IF dictionary[i] = Null THEN EmptyDict ELSE store[dictionary[i]]

\* get_dictionary returns the dict object itself, not a copy.
get_dictionary(i) == dictionary[i]

\* A place for a dict object created for instance i: one no other instance refers to.
NewObject(i) ==
    IF \A j \in Inst \ {i} : dictionary[j] # i THEN i
    ELSE CHOOSE s \in Inst : \A j \in Inst \ {i} : dictionary[j] # s

\* Objects nothing refers to are gone.
Collect(refs, objs) ==
    [s \in Inst |-> IF \E j \in Inst : refs[j] = s THEN objs[s] ELSE EmptyDict]

Call(op, i, arg, err, val, before) ==
    [op |-> op, inst |-> i, arg |-> arg, err |-> err, val |-> val, before |-> before]

Init ==
    /\ data = [i \in Inst |-> <<>>]
    /\ dictionary = [i \in Inst |-> Null]
    /\ store = [s \in Inst |-> EmptyDict]
    /\ encoded = [i \in Inst |-> None]
    /\ fresh = [i \in Inst |-> TRUE]
    /\ given = [i \in Inst |-> Null]
    /\ ret = Call("none", Null, None, NoErr, <<>>, EmptyDict)

\* ------------------------------------------------------------------ __init__
Huffman(i, d) ==
    /\ data[i] = <<>>
    /\ IF Invalid(d)
       THEN /\ ret' = Call("Huffman", i, d, ErrData, <<>>, EmptyDict)
            /\ UNCHANGED <<data, dictionary, store, encoded, fresh, given>>
       ELSE /\ data' = [data EXCEPT ![i] = d.s]
            /\ dictionary' = [dictionary EXCEPT ![i] = NewObject(i)]
            /\ store' = [store EXCEPT ![NewObject(i)] = EmptyDict]
            /\ fresh' = [fresh EXCEPT ![i] = TRUE]
            /\ ret' = Call("Huffman", i, d, NoErr, <<>>, EmptyDict)
            /\ UNCHANGED <<encoded, given>>

\* ------------------------------------------------------------ encode_huffman
\* Mutant: the table is built only when it is empty ("populated exactly once").
encode_result_once(d, dict) ==
    LET table == IF Cardinality(DOMAIN dict) = 0
                 THEN huffman_code(huffman_tree(create_frequency(d)), dict)
                 ELSE dict
        r == encode(d, table)
    IN [err |-> r.err, val |-> r.val, dict |-> table]

\* What encode_huffman leaves in the table and returns, from the data and the
\* table's contents before the call.
encode_result(d, dict) ==
    LET freqmap == create_frequency(d)
    IN IF Cardinality(freqmap) = 0
       THEN [err |-> ErrFrequency, val |-> <<>>, dict |-> dict]
       ELSE LET table == huffman_code(huffman_tree(freqmap), dict)
                r == encode(d, table)
            IN [err |-> r.err, val |-> r.val, dict |-> table]

encode_huffman(i) ==
    /\ data[i] # <<>>
    /\ LET r == encode_result(data[i], Dict(i))
       IN /\ store' = [store EXCEPT ![dictionary[i]] = r.dict]
          /\ encoded' = [encoded EXCEPT ![i] = IF r.err = NoErr THEN Arg(r.val) ELSE @]
          /\ fresh' = [j \in Inst |->
                         IF j # i /\ dictionary[j] = dictionary[i] THEN FALSE ELSE fresh[j]]
          /\ ret' = Call("encode_huffman", i, None, r.err, r.val, Dict(i))
    /\ UNCHANGED <<data, dictionary, given>>

\* ------------------------------------------------------------ decode_huffman
decode_huffman(i, encodedvalue) ==
    /\ data[i] # <<>>
    /\ IF Invalid(encodedvalue)
       THEN ret' = Call("decode_huffman", i, encodedvalue, ErrEncoded, <<>>, Dict(i))
       ELSE \E reverseddictionary \in get_reversed_dictionary(Dict(i)) :
               ret' = Call("decode_huffman", i, encodedvalue, NoErr,
                           decode(reverseddictionary, encodedvalue.s), Dict(i))
    /\ UNCHANGED <<data, dictionary, store, encoded, fresh, given>>

\* ----------------------------------------------------- get_compression_ratio
get_compression_ratio(i, encodedValue) ==
    /\ data[i] # <<>>
    /\ ret' = IF Invalid(encodedValue)
              THEN Call("get_compression_ratio", i, encodedValue, ErrArgument, <<>>, Dict(i))
              ELSE IF Len(data[i]) = 0
              THEN Call("get_compression_ratio", i, encodedValue, ErrMember, <<>>, Dict(i))
              ELSE Call("get_compression_ratio", i, encodedValue, NoErr,
                        compression_ratio(encodedValue.s, data[i]), Dict(i))
    /\ UNCHANGED <<data, dictionary, store, encoded, fresh, given>>

\* ------------------------------------------------------------ set_dictionary
\* set_dictionary(value) with a dict the caller has just built.
set_dictionary(i, value) ==
    /\ data[i] # <<>>
    /\ LET refs == [dictionary EXCEPT ![i] = NewObject(i)]
       IN /\ dictionary' = refs
          /\ store' = Collect(refs, [store EXCEPT ![NewObject(i)] = value])
    /\ fresh' = [fresh EXCEPT ![i] = FALSE]
    /\ given' = [given EXCEPT ![i] = "caller"]
    /\ ret' = Call("set_dictionary", i, None, NoErr, <<>>, Dict(i))
    /\ UNCHANGED <<data, encoded>>

\* Mutant: the assignment is lost, the instance keeps its own table.
set_dictionary_of_dropped(i, j) ==
    /\ data[i] # <<>>
    /\ data[j] # <<>>
    /\ fresh' = [fresh EXCEPT ![i] = FALSE]
    /\ given' = [given EXCEPT ![i] = j]
    /\ ret' = Call("set_dictionary", i, None, NoErr, <<>>, Dict(i))
    /\ UNCHANGED <<data, dictionary, store, encoded>>

\* i.set_dictionary(j.get_dictionary()): both instances then hold the same object.
set_dictionary_of(i, j) ==
    /\ data[i] # <<>>
    /\ data[j] # <<>>
    /\ LET refs == [dictionary EXCEPT ![i] = get_dictionary(j)]
       IN /\ dictionary' = refs
          /\ store' = Collect(refs, store)
    /\ fresh' = [fresh EXCEPT ![i] = FALSE]
    /\ given' = [given EXCEPT ![i] = j]
    /\ ret' = Call("set_dictionary", i, None, NoErr, <<>>, Dict(i))
    /\ UNCHANGED <<data, encoded>>

\* ===================================================================== inputs
Bits == {0, 1}

\* Tables a caller passes to set_dictionary: an empty one, one that covers
\* only 'c', a complete prefix-free one for a, b, c, and one with a repeated
\* bit pattern.
ExternalTables ==
    { EmptyDict,
      (3 :> <<0>>),
      (1 :> <<0>>) @@ (2 :> <<1, 0>>) @@ (3 :> <<1, 1>>),
      (1 :> <<0>>) @@ (2 :> <<0>>) }

BadArgs == {None, Arg(<<>>)}

\* What a caller passes as an encoded stream: nothing, what some encode
\* returned, or any short bit string.
Streams(I, n) ==
    BadArgs \cup {encoded[j] : j \in I}
            \cup {Arg(b) : b \in StringsUpTo(Bits, n)}

Inputs == StringsUpTo(1..NSym, MaxLen) \cup {test_data_1, test_data_2, test_data_3}

\* One instance, every operation.
Next ==
    \/ \E d \in BadArgs \cup {Arg(s) : s \in Inputs} : Huffman("A", d)
    \/ encode_huffman("A")
    \/ \E e \in Streams({"A"}, MaxBits) : decode_huffman("A", e)
    \/ \E e \in Streams({"A"}, 0) : get_compression_ratio("A", e)
    \/ \E t \in ExternalTables : set_dictionary("A", t)
    \/ set_dictionary_of("A", "A")

Spec == Init /\ [][Next]_vars

InputsShare == StringsUpTo(1..NSymShare, MaxLenShare)

\* Other data, for the instance that takes over a table: "c", "bc", "cac".
InputsOther == {<<3>>, <<2, 3>>, <<3, 1, 3>>}

\* Two instances: A encodes its data and publishes its table and stream; B,
\* built from other data, takes tables from A or from the caller, decodes,
\* and may encode its own data into the table it holds.
NextShare ==
    \/ \E d \in {Arg(s) : s \in InputsShare} : Huffman("A", d)
    \/ \E d \in {Arg(s) : s \in InputsOther} : Huffman("B", d)
    \/ \E i \in Inst : encode_huffman(i)
    \/ set_dictionary_of("B", "A")
    \/ \E t \in ExternalTables : set_dictionary("B", t)
    \/ \E e \in Streams(Inst, 0) : decode_huffman("B", e)

SpecShare == Init /\ [][NextShare]_vars

RECURSIVE Blocks(_, _)
\* The inputs 1^c1 2^c2 ... n^cn with every count in 0..m.
Blocks(n, m) ==
    IF n = 0 THEN {<<>>}
    ELSE {s \o Repeat(n, c) : s \in Blocks(n - 1, m), c \in 0..m}

InputsOpt == Blocks(NSymOpt, MaxCount) \ {<<>>}

\* One instance that encodes its input and decodes the result, over inputs
\* with every mix of symbol counts.
NextOpt ==
    \/ \E d \in {Arg(s) : s \in InputsOpt} : Huffman("A", d)
    \/ encode_huffman("A")
    \/ decode_huffman("A", encoded["A"])

SpecOpt == Init /\ [][NextOpt]_vars


\* ===================================================================== claims
\* Vocabulary of the claims, independent of the operators above.
Symbols(d) == {d[i] : i \in DOMAIN d}

EmptyOrAbsent(x) == x = None \/ x = Arg(<<>>)

\* No code word of the table is a prefix of another key's code word.
PrefixFree(dict) ==
    \A k1 \in DOMAIN dict : \A k2 \in (DOMAIN dict) \ {k1} : ~IsPrefix(dict[k1], dict[k2])

RECURSIVE CodeOf(_, _)
\* The code words of the symbols of syms, concatenated.
CodeOf(dict, syms) ==
    IF syms = <<>> THEN <<>> ELSE dict[Head(syms)] \o CodeOf(dict, Tail(syms))

\* The last call was encode_huffman on an instance whose table only its own
\* encode_huffman calls have written.
FreshEncode == ret.op = "encode_huffman" /\ fresh[ret.inst]

\* The last call was decode_huffman, on instance i, of the stream that
\* encode_huffman returned for instance j.
DecodedStreamOf(i, j) ==
    /\ ret.op = "decode_huffman"
    /\ ret.inst = i
    /\ encoded[j] # None
    /\ ret.arg = encoded[j]

\* C1: on a fresh instance, decode_huffman of what encode_huffman returned
\* gives back the data: same symbols, same order, same length.
C1_RoundTrip ==
    \A i \in Inst :
        (DecodedStreamOf(i, i) /\ fresh[i]) => (ret.err = NoErr /\ ret.val = data[i])

C1_Witness ==
    /\ DecodedStreamOf("A", "A") /\ fresh["A"]
    /\ Cardinality(Symbols(data["A"])) = 3
    /\ ret.val = data["A"]

\* C2: the table a fresh instance's encode_huffman leaves has an entry for
\* every symbol of the data, every code word is a non-empty string of 0/1,
\* and no code word is a prefix of another symbol's.
C2_TableCoversAndPrefixFree ==
    FreshEncode =>
        LET dict == Dict(ret.inst)
        IN /\ ret.err = NoErr
           /\ Symbols(data[ret.inst]) \subseteq DOMAIN dict
           /\ \A k \in DOMAIN dict : Len(dict[k]) >= 1 /\ Symbols(dict[k]) \subseteq {0, 1}
           /\ PrefixFree(dict)

C2_Witness ==
    /\ FreshEncode
    /\ Cardinality(DOMAIN Dict(ret.inst)) = 3
    /\ \E k \in DOMAIN Dict(ret.inst) : Len(Dict(ret.inst)[k]) = 2

\* What is left in the bit buffer when decode_huffman has read all of its
\* argument (the same for every reversed dictionary of the table).
Leftover ==
    LET rev == CHOOSE r \in get_reversed_dictionary(Dict(ret.inst)) : TRUE
    IN decode_end(rev, ret.arg.s).bitPattern

\* C3: decode_huffman fails whenever a non-empty unmatched bit buffer is left
\* at the end of its input; it never returns with trailing bits dropped.
\* (Stated for an instance that holds a table; with an empty table every
\* bit is left over.)
C3_MalformedStreamRejected ==
    (/\ ret.op = "decode_huffman"
     /\ ~EmptyOrAbsent(ret.arg)
     /\ DOMAIN Dict(ret.inst) # {}
     /\ Leftover # <<>>)
        => ret.err # NoErr

\* The last call was encode_huffman on an instance whose table had been set
\* from outside and had no entry for some symbol of the data.
EncodeAfterUncoveringSet ==
    /\ ret.op = "encode_huffman"
    /\ ~fresh[ret.inst]
    /\ ~(Symbols(data[ret.inst]) \subseteq DOMAIN ret.before)

\* C4 as claimed: such an encode fails with the missing-code error.
C4_MissingCodeRaised == EncodeAfterUncoveringSet => ret.err = ErrKey

\* C4 as amended: such an encode raises nothing: it generates a code word
\* for every symbol of the data and returns the stream of those code words.
C4_EncodeFillsTable ==
    EncodeAfterUncoveringSet =>
        /\ ret.err = NoErr
        /\ Symbols(data[ret.inst]) \subseteq DOMAIN Dict(ret.inst)
        /\ ret.val = CodeOf(Dict(ret.inst), data[ret.inst])

C4_Witness ==
    /\ EncodeAfterUncoveringSet
    /\ ret.before # EmptyDict
    /\ ret.err = NoErr
    /\ Cardinality(Symbols(data[ret.inst])) >= 2

\* C6: for an input of one symbol repeated n times, a fresh instance's
\* encode_huffman leaves exactly one entry, with code word "1", and returns
\* a stream of length n.
C6_SingleSymbol ==
    (FreshEncode /\ Cardinality(Symbols(data[ret.inst])) = 1) =>
        /\ ret.err = NoErr
        /\ Dict(ret.inst) = (data[ret.inst][1] :> <<1>>)
        /\ Len(ret.val) = Len(data[ret.inst])

C6_Witness ==
    /\ FreshEncode
    /\ data[ret.inst] = test_data_3
    /\ ret.val = test_data_3

RECURSIVE Pow2(_)
Pow2(n) == IF n = 0 THEN 1 ELSE 2 * Pow2(n - 1)
\* ceil(log2(n)) for n >= 1
CeilLog2(n) == CHOOSE k \in 0..n : Pow2(k) >= n /\ (k = 0 \/ Pow2(k - 1) < n)

WordLengths(dict) == {Len(dict[k]) : k \in DOMAIN dict}

AlphabetEncoded == FreshEncode /\ data[ret.inst] = test_data_2

\* C8 as claimed: for the 26 letters every code word has ceil(log2(26)) = 5
\* or ceil(log2(26)) + 1 = 6 bits.
C8_LengthsCeilOrCeilPlusOne ==
    AlphabetEncoded =>
        WordLengths(Dict(ret.inst)) \subseteq {CeilLog2(26), CeilLog2(26) + 1}

\* C8 as amended: for the 26 letters every code word has
\* ceil(log2(26)) - 1 = 4 or ceil(log2(26)) = 5 bits.
C8_LengthsFloorOrCeil ==
    AlphabetEncoded =>
        /\ Cardinality(DOMAIN Dict(ret.inst)) = 26
        /\ WordLengths(Dict(ret.inst)) \subseteq {CeilLog2(26) - 1, CeilLog2(26)}

C8_Witness ==
    /\ AlphabetEncoded
    /\ WordLengths(Dict(ret.inst)) = {4, 5}
    /\ Len(ret.val) = 124

\* C9: a call that receives an empty or absent sequence (the constructor,
\* decode_huffman, get_compression_ratio) raises its invalid-input error, in
\* every state, and leaves the data and the tables as they were.
C9_EmptyInputRejected ==
    [][(ret' # ret /\ EmptyOrAbsent(ret'.arg)
        /\ ret'.op \in {"Huffman", "decode_huffman", "get_compression_ratio"})
       => /\ ret'.err = (CASE ret'.op = "Huffman" -> ErrData
                           [] ret'.op = "decode_huffman" -> ErrEncoded
                           [] OTHER -> ErrArgument)
          /\ ret'.val = <<>>
          /\ UNCHANGED <<data, dictionary, store>>]_vars

C9_Witness ==
    /\ ret.op = "decode_huffman"
    /\ ret.arg = Arg(<<>>)
    /\ ret.err = ErrEncoded
    /\ ~fresh[ret.inst]
    /\ Cardinality(DOMAIN Dict(ret.inst)) >= 2

\* C10: in every state, after encode_huffman returns, the table holds one
\* entry per symbol of the data and no other, so it is prefix-free, and a
\* decode_huffman of the stream just returned gives back the data.
C10_EncodeRebuildsTable ==
    [][/\ (ret' # ret /\ ret'.op = "encode_huffman")
          => /\ DOMAIN store'[dictionary'[ret'.inst]] = Symbols(data'[ret'.inst])
             /\ PrefixFree(store'[dictionary'[ret'.inst]])
       /\ (ret.op = "encode_huffman" /\ ret'.op = "decode_huffman"
           /\ ret'.inst = ret.inst /\ ret'.arg = Arg(ret.val))
          => ret'.val = data[ret.inst]]_vars


\* C5: when B was given A's table (B.set_dictionary(A.get_dictionary())) and
\* A's table is the one A's own encode_huffman built, B.decode_huffman of
\* A's stream returns A's data, whatever data B was built from; and every
\* decode reads the table the instance holds at the time of the call: the
\* symbols it returns are ones whose current code words, concatenated, are
\* the part of the argument that was matched.
C5_PublishedTableDecodes ==
    /\ \A a \in Inst : \A b \in Inst \ {a} :
          (DecodedStreamOf(b, a) /\ given[b] = a /\ fresh[a])
              => (ret.err = NoErr /\ ret.val = data[a])
    /\ (ret.op = "decode_huffman" /\ ret.err = NoErr)
          => /\ Symbols(ret.val) \subseteq DOMAIN Dict(ret.inst)
             /\ IsPrefix(CodeOf(Dict(ret.inst), ret.val), ret.arg.s)

C5_Witness ==
    /\ DecodedStreamOf("B", "A") /\ given["B"] = "A" /\ fresh["A"]
    /\ encoded["B"] = None
    /\ Cardinality(Symbols(data["A"])) = 2
    /\ Symbols(data["B"]) \cap Symbols(data["A"]) = {}
    /\ ret.val = data["A"]

\* ----------------------------------------------------------------- optimality
\* The prefix-free binary codes for each set S of symbols, with words of at
\* most MaxCodeLen bits.
RivalCodes ==
    [S \in SUBSET (1..NSymOpt) |->
        {c \in [S -> StringsUpTo({0, 1}, MaxCodeLen)] : PrefixFree(c)}]

\* The word lengths of those codes, symbol by symbol: all that a code's
\* weighted length depends on.
AllRivalLengths ==
    UNION {{<<S, [s \in S |-> Len(c[s])]>> : c \in RivalCodes[S]} : S \in SUBSET (1..NSymOpt)}

RivalLengths(S) == {p[2] : p \in {q \in AllRivalLengths : q[1] = S}}

Occurrences(s, d) == Cardinality({i \in DOMAIN d : d[i] = s})

RECURSIVE SumOver(_, _, _)
SumOver(S, count, length) ==
    IF S = {} THEN 0
    ELSE LET s == CHOOSE x \in S : TRUE
         IN count[s] * length[s] + SumOver(S \ {s}, count, length)

\* The sum over the symbols of (occurrence count x code-word length).
Weighted(length, count) == SumOver(DOMAIN count, count, length)

WeightedLength(dict, count) == Weighted([s \in DOMAIN count |-> Len(dict[s])], count)

Counts(d) == [s \in Symbols(d) |-> Occurrences(s, d)]

MinWeight(nodes) == {n \in nodes : \A m \in nodes : n[1] <= m[1]}

RECURSIVE MergeTrees(_)
\* Every tree that merging two lowest-weight nodes can end with, over every
\* way of choosing among nodes of equal weight.
MergeTrees(nodes) ==
    IF Cardinality(nodes) <= 1 THEN nodes
    ELSE UNION {UNION {MergeTrees((nodes \ {l, r}) \cup {<<l[1] + r[1], l, r>>})
                       : r \in MinWeight(nodes \ {l})}
                : l \in MinWeight(nodes)}

RECURSIVE PathCodes(_, _)
\* Each leaf's path from the root: 0 to the left, 1 to the right.
PathCodes(tree, prefix) ==
    IF Len(tree) = 2 THEN (tree[2] :> prefix)
    ELSE PathCodes(tree[2], Append(prefix, 0)) @@ PathCodes(tree[3], Append(prefix, 1))

Leaves(d) == {<<Occurrences(s, d), s>> : s \in Symbols(d)}

SeveralSymbols == FreshEncode /\ Cardinality(Symbols(data[ret.inst])) >= 2

\* C7: for an input with at least two distinct symbols, the generated table's
\* weighted length is no larger than that of any prefix-free binary code for
\* the same symbol counts; and so is that of every tree the merging can
\* build, whichever way equal weights are ordered.
C7_WeightOptimal ==
    SeveralSymbols =>
        LET count == Counts(data[ret.inst])
            generated == WeightedLength(Dict(ret.inst), count)
            merged == {WeightedLength(PathCodes(t, <<>>), count)
                       : t \in MergeTrees(Leaves(data[ret.inst]))}
        IN \A length \in RivalLengths(DOMAIN count) :
              LET rival == Weighted(length, count)
              IN generated <= rival /\ \A w \in merged : w <= rival

C7_Witness ==
    /\ SeveralSymbols
    /\ Cardinality(Symbols(data[ret.inst])) = 3
    /\ WordLengths(Dict(ret.inst)) = {1, 2}
    /\ Cardinality(MergeTrees(Leaves(data[ret.inst]))) > 1
    /\ \E c \in RivalCodes[Symbols(data[ret.inst])] :
          /\ WordLengths(c) = {1, 2}
          /\ WeightedLength(c, Counts(data[ret.inst]))
                > WeightedLength(Dict(ret.inst), Counts(data[ret.inst]))

====
